---- MODULE Spec2Model ----
(***************************************************************************)
(* A model of pp.py (class VideoPlayer): the seek throttle, the audio      *)
(* process lifecycle, the status overlay, the speed control and the        *)
(* playback loop with its key handlers.                                    *)
(*                                                                         *)
(* Units.  Decoder positions and seek amounts are whole seconds.  Wall     *)
(* clock time (now, status_start_time) is counted in tenths of a second.   *)
(* The playback speed and the overlay opacity are counted in thousandths   *)
(* (1000 = 1.0).  The object's fields keep their names; a method m(self,   *)
(* args) is the operator m(s, args) from a field record to a field record, *)
(* so a method that calls another is the composition of the operators.     *)
(***************************************************************************)
EXTENDS Integers, Sequences, FiniteSets, TLC

\* ------------------------------------------------------------------ bounds
\* Longest list of pending seek requests the model lets pile up.
MaxPending == 3
\* Largest number of video files in the directory.
MaxFiles == 2
\* Last instant of the wall clock (tenths of a second) in the status runs.
MaxTime == 60
\* Last instant of the wall clock (tenths of a second) in the pacing runs.
PaceTime == 12
\* The files of the modelled directories: frames of the long and of the short
\* file (at 1 frame per second), and of the file of the direct-call runs.
LongFrames == 6
ShortFrames == 3
CallFrames == 100
\* --seek-short and --seek-long as given on the command line of the modelled
\* runs of the playback loop (seconds).
seek_short == 1
seek_long == 3

\* ------------------------------------------------------- program constants
\* The throttle multiplier and the number of requests it starts at.
FastSeekOps == 3
FastSeekMultiplier == 5
\* The margin of the "end of video" jump (seconds).
EndMargin == 5
\* Speed limits, the key step and the change threshold, in thousandths.
SpeedMin == 100
SpeedMax == 3000
SpeedInit == 1000
SpeedKeyDelta == 100
SpeedThreshold == 10
\* Status overlay: display time and fade window, in tenths of a second.
status_duration == 25
FadeWindow == 5
\* Full opacity, in thousandths.
AlphaFull == 1000
\* The speed at which play_audio adds no atempo filter, in thousandths.
SpeedNormal == 1000
\* fps as the constructor leaves it.
FpsInit == 30
\* The seek amounts without --seek-short and --seek-long.
SeekShortDefault == 10
SeekLongDefault == 60

\* ----------------------------------------------------------------- state
VARIABLES
    pc,                       \* "new", "top", "key", "exited", "crashed", "interrupted"
    video_files,              \* self.video_files: what the decoder finds in each file
    keys,                     \* the keys the user of this run presses
    continuous,               \* self.continuous
    audio_available,          \* self.audio_available
    kill_fails,               \* whether, in this run, a killed ffplay outlives stop_audio
    launch_fails,             \* whether, in this run, subprocess.Popen raises
    current_index,            \* self.current_index
    is_playing,               \* self.is_playing
    is_muted,                 \* self.is_muted
    timestamps,               \* self.timestamps, keyed by the file's index
    cap,                      \* self.cap: "None", "opened" or "failed" (isOpened() false)
    cap_pos,                  \* the decoder's CAP_PROP_POS_MSEC / 1000
    fps,                      \* self.fps
    frame_count,              \* self.frame_count
    playback_speed,           \* self.playback_speed
    status_text,              \* self.status_text ("" when none)
    status_start_time,        \* self.status_start_time
    audio_process,            \* self.audio_process and what it was launched with
    pending_seek_operations,  \* self.pending_seek_operations
    seek_throttle_timer,      \* self.seek_throttle_timer: "None", "pending", "fired", "cancelled"
    execute_pending_seek,     \* self.execute_pending_seek
    now,                      \* time.time()
    audio_log,                \* what the last step did to audio processes
    set_log,                  \* the positions the last step wrote to the decoder
    status_shown,             \* the show_status calls of the last step
    total_log,                \* the consolidated seek amounts the last step applied
    overlay,                  \* what the last draw_status_overlay put on the frame
    burst_applies,            \* consolidated seeks applied for the current burst
    burst_count,              \* the seek requests of the current burst: how many,
    burst_sum,                \* and their sum
    stray_audio,              \* an ffplay launched by the object is alive without a handle
    timers_pending,           \* the Timer objects started, not fired and not cancelled
    end_of_item,              \* the loaded file has run into its end
    last_frame_time,          \* play()'s last_frame_time
    last_op                   \* the operation the last step performed

vars == <<pc, video_files, keys, continuous, audio_available, kill_fails, launch_fails,
          current_index, is_playing,
          is_muted, timestamps, cap, cap_pos, fps, frame_count, playback_speed,
          status_text, status_start_time, audio_process, pending_seek_operations,
          seek_throttle_timer, execute_pending_seek, now, audio_log, set_log,
          status_shown, total_log, overlay, burst_applies, burst_count, burst_sum,
          stray_audio, timers_pending, end_of_item, last_frame_time, last_op>>

\* --------------------------------------------------------------- helpers
Min(a, b) == IF a < b THEN a ELSE b
Max(a, b) == IF a > b THEN a ELSE b
Abs(a) == IF a < 0 THEN -a ELSE a

RECURSIVE Sum(_)
Sum(seq) == IF seq = <<>> THEN 0 ELSE Head(seq) + Sum(Tail(seq))

\* No audio process handle (self.audio_process = None).
NoProcess == [file |-> 0, start |-> 0, speed |-> 0, muted |-> FALSE, state |-> "None"]
\* Nothing drawn by the last overlay read.
NoOverlay == [present |-> FALSE, alpha |-> 0, elapsed |-> 0]

\* The file at index i (from 0) of the directory: its frames, its frames per
\* second, and whether cv2.VideoCapture opens it.
FileFrames(i) == video_files[i + 1].frames
FileFps(i) == video_files[i + 1].fps
FileOpens(i) == video_files[i + 1].opens
num_files == Len(video_files)

\* The fields of the object (and the decoder's position) as one record.
self == [current_index |-> current_index, is_playing |-> is_playing,
         is_muted |-> is_muted, timestamps |-> timestamps, cap |-> cap,
         cap_pos |-> cap_pos, fps |-> fps, frame_count |-> frame_count,
         playback_speed |-> playback_speed, status_text |-> status_text,
         status_start_time |-> status_start_time, audio_process |-> audio_process,
         pending_seek_operations |-> pending_seek_operations,
         seek_throttle_timer |-> seek_throttle_timer,
         execute_pending_seek |-> execute_pending_seek,
         audio_log |-> <<>>, set_log |-> <<>>, status_shown |-> 0,
         total_log |-> <<>>,
         overlay |-> overlay, burst_applies |-> burst_applies,
         burst_count |-> burst_count, burst_sum |-> burst_sum,
         stray_audio |-> stray_audio, timers_pending |-> timers_pending,
         end_of_item |-> end_of_item, last_frame_time |-> last_frame_time,
         raised |-> FALSE, ok |-> TRUE]

\* The step's result becomes the next state.
Becomes(s) ==
    /\ current_index' = s.current_index
    /\ is_playing' = s.is_playing
    /\ is_muted' = s.is_muted
    /\ timestamps' = s.timestamps
    /\ cap' = s.cap
    /\ cap_pos' = s.cap_pos
    /\ fps' = s.fps
    /\ frame_count' = s.frame_count
    /\ playback_speed' = s.playback_speed
    /\ status_text' = s.status_text
    /\ status_start_time' = s.status_start_time
    /\ audio_process' = s.audio_process
    /\ pending_seek_operations' = s.pending_seek_operations
    /\ seek_throttle_timer' = s.seek_throttle_timer
    /\ execute_pending_seek' = s.execute_pending_seek
    /\ audio_log' = s.audio_log
    /\ set_log' = s.set_log
    /\ status_shown' = s.status_shown
    /\ total_log' = s.total_log
    /\ overlay' = s.overlay
    /\ burst_applies' = s.burst_applies
    /\ burst_count' = s.burst_count
    /\ burst_sum' = s.burst_sum
    /\ stray_audio' = s.stray_audio
    /\ timers_pending' = s.timers_pending
    /\ end_of_item' = s.end_of_item
    /\ last_frame_time' = s.last_frame_time

\* An exception leaves the method: nothing after it runs.
Raise(s) == [s EXCEPT !.raised = TRUE]

\* ---------------------------------------------------------------- status
\* show_status keeping the start time of a message it replaces.
show_status_KeepsRunningWindow(s, message) ==
    [s EXCEPT !.status_text = message,
              !.status_start_time = IF s.status_text = "" THEN now ELSE @,
              !.status_shown = @ + 1]

show_status(s, message) ==
    [s EXCEPT !.status_text = message,
              !.status_start_time = now,
              !.status_shown = @ + 1]

\* Alpha with the fade spread over the whole display time.
Alpha_FadesFromStart(elapsed) ==
    AlphaFull - (elapsed * AlphaFull) \div status_duration

\* The fade: full until the fade window starts, then linear down to 0.
Alpha(elapsed) ==
    LET fade_start == status_duration - FadeWindow IN
    IF elapsed > fade_start
    THEN AlphaFull - ((elapsed - fade_start) * AlphaFull) \div FadeWindow
    ELSE AlphaFull

\* draw_status_overlay with the message expiring at status_duration already.
draw_status_overlay_ExpiresAtDuration(s) ==
    IF s.status_text = ""
    THEN [s EXCEPT !.overlay = NoOverlay]
    ELSE LET elapsed == now - s.status_start_time IN
         IF elapsed >= status_duration
         THEN [s EXCEPT !.status_text = "", !.overlay = NoOverlay]
         ELSE [s EXCEPT !.overlay = [present |-> TRUE, alpha |-> Alpha(elapsed),
                                     elapsed |-> elapsed]]

draw_status_overlay(s) ==
    IF s.status_text = ""
    THEN [s EXCEPT !.overlay = NoOverlay]
    ELSE LET elapsed == now - s.status_start_time IN
         IF elapsed > status_duration
         THEN [s EXCEPT !.status_text = "", !.overlay = NoOverlay]
         ELSE [s EXCEPT !.overlay = [present |-> TRUE, alpha |-> Alpha(elapsed),
                                     elapsed |-> elapsed]]

\* ----------------------------------------------------------------- audio
\* poll() is None: the process has not exited (it may be suspended).
Alive(p) == p.state \in {"running", "suspended"}

\* stop_audio keeping the handle of a process it could not kill.
stop_audio_KeepsUnkillable(s) ==
    IF Alive(s.audio_process)
    THEN IF kill_fails
         THEN [s EXCEPT !.audio_log = Append(@, "kill")]
         ELSE [s EXCEPT !.audio_process = NoProcess, !.audio_log = Append(@, "kill")]
    ELSE [s EXCEPT !.audio_process = NoProcess]

\* stop_audio dropping the handle without the kill.
stop_audio_DropsHandle(s) ==
    [s EXCEPT !.audio_process = NoProcess,
              !.stray_audio = @ \/ Alive(s.audio_process)]

\* The kill and the wait of one second may fail or time out: the exception is
\* swallowed and the handle dropped all the same.
stop_audio(s) ==
    IF Alive(s.audio_process)
    THEN [s EXCEPT !.audio_process = NoProcess, !.audio_log = Append(@, "kill"),
                   !.stray_audio = @ \/ kill_fails]
    ELSE [s EXCEPT !.audio_process = NoProcess]

\* The arguments of the ffplay command line: a fixed word, a number written
\* out with str(), the path of the video, or the filters joined by commas into
\* one argument.
Word(w) == [kind |-> "word", word |-> w, number |-> 0, filters |-> <<>>]
Number(n) == [kind |-> "number", word |-> "", number |-> n, filters |-> <<>>]
PathOf(video) == [kind |-> "path", word |-> "", number |-> video, filters |-> <<>>]
Joined(audio_filters) == [kind |-> "filters", word |-> "", number |-> 0,
                          filters |-> audio_filters]

\* One audio filter, name=value.
Filter(name, value) == [name |-> name, value |-> value]

\* The command with one -af argument for each filter.
ffplay_command_OneFilterPerArgument(video, start_time, muted, speed) ==
    <<Word("ffplay"), Word("-nodisp"), Word("-autoexit"), Word("-loglevel"), Word("quiet")>>
    \o (IF start_time > 0 THEN <<Word("-ss"), Number(start_time)>> ELSE <<>>)
    \o (IF muted THEN <<Word("-af"), Joined(<<Filter("volume", 0)>>)>> ELSE <<>>)
    \o (IF speed # SpeedNormal THEN <<Word("-af"), Joined(<<Filter("atempo", speed)>>)>>
        ELSE <<>>)
    \o <<PathOf(video)>>

\* cmd as play_audio builds it.
ffplay_command(video, start_time, muted, speed) ==
    LET audio_filters == (IF muted THEN <<Filter("volume", 0)>> ELSE <<>>)
                         \o (IF speed # SpeedNormal THEN <<Filter("atempo", speed)>>
                             ELSE <<>>)
    IN  <<Word("ffplay"), Word("-nodisp"), Word("-autoexit"), Word("-loglevel"), Word("quiet")>>
        \o (IF start_time > 0 THEN <<Word("-ss"), Number(start_time)>> ELSE <<>>)
        \o (IF audio_filters # <<>> THEN <<Word("-af"), Joined(audio_filters)>> ELSE <<>>)
        \o <<PathOf(video)>>

\* subprocess.Popen: the new process takes the place of the handle, or Popen
\* raises, play_audio swallows the exception and the handle stays as it is.
Launch(s, video, start_time) ==
    IF launch_fails
    THEN [s EXCEPT !.audio_log = Append(@, "launch failed")]
    ELSE [s EXCEPT !.audio_process = [file |-> video, start |-> start_time,
                                      speed |-> s.playback_speed,
                                      muted |-> s.is_muted, state |-> "running"],
                   !.stray_audio = @ \/ Alive(s.audio_process),
                   !.audio_log = Append(@, "launch")]

\* play_audio without the test of audio_available.
play_audio_Unchecked(s, video, start_time) == Launch(stop_audio(s), video, start_time)

play_audio(s, video, start_time) ==
    IF ~audio_available
    THEN s
    ELSE Launch(stop_audio(s), video, start_time)

\* pause_audio killing the process instead of suspending it.
pause_audio_Kills(s) == stop_audio(s)

pause_audio(s) ==
    IF Alive(s.audio_process)
    THEN [s EXCEPT !.audio_process.state = "suspended",
                   !.audio_log = Append(@, "SIGSTOP")]
    ELSE s

resume_audio(s) ==
    IF Alive(s.audio_process)
    THEN [s EXCEPT !.audio_process.state = "running",
                   !.audio_log = Append(@, "SIGCONT")]
    ELSE s

\* set_audio_volume that also sets the player playing.
set_audio_volume_Resumes(s, muted) ==
    IF s.audio_process.state # "None"
    THEN play_audio(stop_audio([s EXCEPT !.is_playing = TRUE]), s.current_index,
                    IF s.cap # "None" THEN s.cap_pos ELSE 0)
    ELSE [s EXCEPT !.is_playing = TRUE]

set_audio_volume(s, muted) ==
    IF s.audio_process.state # "None"
    THEN play_audio(stop_audio(s), s.current_index,
                    IF s.cap # "None" THEN s.cap_pos ELSE 0)
    ELSE s

\* --------------------------------------------------------------- decoder
\* cap.set(CAP_PROP_POS_MSEC, position * 1000); a capture that did not open
\* ignores it.
CapSet(s, position) ==
    [s EXCEPT !.cap_pos = IF s.cap = "opened" THEN position ELSE @,
              !.set_log = Append(@, position)]

\* self.frame_count / self.fps, for fps # 0.
Duration(s) == s.frame_count \div s.fps

\* Put that starts a new dictionary with the one entry.
Put_OnlyEntry(ts, key, value) == [k \in {key} |-> value]

\* self.timestamps[key] = value
Put(ts, key, value) ==
    [k \in DOMAIN ts \cup {key} |-> IF k = key THEN value ELSE ts[k]]

\* self.timestamps.get(key, default)
Get(ts, key, default) == IF key \in DOMAIN ts THEN ts[key] ELSE default

\* load_video stopping the audio before it looks at the index.
load_video_StopsAudioFirst(s, index) ==
    LET stopped == stop_audio(s) IN
    IF 0 <= index /\ index < num_files
    THEN LET saved == IF stopped.cap # "None"
                      THEN [stopped EXCEPT !.timestamps = Put(@, s.current_index, s.cap_pos)]
                      ELSE stopped
             switched == [saved EXCEPT !.current_index = index, !.end_of_item = FALSE]
         IN  IF ~FileOpens(index)
             THEN [switched EXCEPT !.cap = "failed", !.cap_pos = 0, !.ok = FALSE]
             ELSE LET opened == [switched EXCEPT !.cap = "opened", !.cap_pos = 0,
                                                 !.fps = FileFps(index),
                                                 !.frame_count = FileFrames(index)]
                      saved_time == Get(opened.timestamps, index, 0)
                      restored == IF saved_time > 0
                                  THEN CapSet(opened, saved_time)
                                  ELSE opened
                      started == play_audio(restored, index, saved_time)
                  IN  [show_status(started, "Playing: name") EXCEPT !.ok = TRUE]
    ELSE [stopped EXCEPT !.ok = FALSE]

load_video(s, index) ==
    IF 0 <= index /\ index < num_files
    THEN LET saved == IF s.cap # "None"
                      THEN [s EXCEPT !.timestamps = Put(@, s.current_index, s.cap_pos)]
                      ELSE s
             switched == [stop_audio(saved) EXCEPT !.current_index = index,
                                                   !.end_of_item = FALSE]
         IN  IF ~FileOpens(index)
             THEN [switched EXCEPT !.cap = "failed", !.cap_pos = 0, !.ok = FALSE]
             ELSE LET opened == [switched EXCEPT !.cap = "opened", !.cap_pos = 0,
                                                 !.fps = FileFps(index),
                                                 !.frame_count = FileFrames(index)]
                      saved_time == Get(opened.timestamps, index, 0)
                      restored == IF saved_time > 0
                                  THEN CapSet(opened, saved_time)
                                  ELSE opened
                      started == play_audio(restored, index, saved_time)
                  IN  [show_status(started, "Playing: name") EXCEPT !.ok = TRUE]
    ELSE [s EXCEPT !.ok = FALSE]

\* next_video without the wrap-around.
next_video_NoWrap(s) == load_video(s, s.current_index + 1)

next_video(s) == load_video(s, (s.current_index + 1) % num_files)

\* prev_video without the wrap-around.
prev_video_NoWrap(s) == load_video(s, s.current_index - 1)

prev_video(s) == load_video(s, (s.current_index - 1) % num_files)

\* ClampedTime without the upper limit.
ClampedTime_NoUpperLimit(s, seconds) == Max(0, s.cap_pos + seconds)

\* new_time = min(max(0, current_time + seconds), duration)
ClampedTime(s, seconds) == Min(Max(0, s.cap_pos + seconds), Duration(s))

seek(s, seconds) ==
    IF s.cap = "None" THEN s
    ELSE IF s.fps = 0 THEN Raise(s)
    ELSE LET new_time == ClampedTime(s, seconds)
             moved == CapSet(s, new_time)
         IN  IF audio_available /\ moved.audio_process.state # "None"
             THEN play_audio(stop_audio(moved), moved.current_index, new_time)
             ELSE moved

\* seek_to_position without the lower limit.
seek_to_position_NoLowerLimit(s, position) ==
    IF s.cap = "None" THEN s
    ELSE IF s.fps = 0 THEN Raise(s)
    ELSE LET clamped == Min(position, Duration(s))
             moved == CapSet(s, clamped)
         IN  IF audio_available /\ moved.audio_process.state # "None"
             THEN play_audio(stop_audio(moved), moved.current_index, clamped)
             ELSE moved

seek_to_position(s, position) ==
    IF s.cap = "None" THEN s
    ELSE IF s.fps = 0 THEN Raise(s)
    ELSE LET clamped == Max(0, Min(position, Duration(s)))
             moved == CapSet(s, clamped)
         IN  IF audio_available /\ moved.audio_process.state # "None"
             THEN play_audio(stop_audio(moved), moved.current_index, clamped)
             ELSE moved

\* ------------------------------------------------------------ seek throttle
\* Cancel that leaves the timer running.
Cancel_Forgotten(timer) == timer

\* Timer.cancel(): a timer that has fired or was cancelled stays as it is.
Cancel(timer) == IF timer = "pending" THEN "cancelled" ELSE timer

\* The pending Timer objects once `timer` has been through cancel().
AfterCancel(count, timer) == IF Cancel(timer) # timer THEN count - 1 ELSE count

\* throttled_seek leaving the audio process to play until the seek is applied.
throttled_seek_KeepsAudio(s, seconds) ==
    LET same_burst == s.seek_throttle_timer = "pending"
    IN  [s EXCEPT !.pending_seek_operations = Append(@, seconds),
                  !.seek_throttle_timer = "pending",
                  !.timers_pending = AfterCancel(@, s.seek_throttle_timer) + 1,
                  !.burst_applies = IF same_burst THEN @ ELSE 0,
                  !.burst_count = IF same_burst THEN @ + 1 ELSE 1,
                  !.burst_sum = IF same_burst THEN @ + seconds ELSE seconds]

throttled_seek(s, seconds) ==
    LET same_burst == s.seek_throttle_timer = "pending"
        queued == [s EXCEPT !.pending_seek_operations = Append(@, seconds),
                            !.seek_throttle_timer = Cancel(@),
                            !.timers_pending = AfterCancel(@, s.seek_throttle_timer) + 1,
                            !.burst_applies = IF same_burst THEN @ ELSE 0,
                            !.burst_count = IF same_burst THEN @ + 1 ELSE 1,
                            !.burst_sum = IF same_burst THEN @ + seconds ELSE seconds]
    IN  [stop_audio(queued) EXCEPT !.seek_throttle_timer = "pending"]

\* total_seek: the sum, times the multiplier from FastSeekOps requests on.
TotalSeek(ops) ==
    IF Len(ops) >= FastSeekOps THEN Sum(ops) * FastSeekMultiplier ELSE Sum(ops)

execute_throttled_seeks(s) ==
    IF s.pending_seek_operations = <<>> THEN s
    ELSE LET ops == s.pending_seek_operations
             total_seek == TotalSeek(ops)
             shown == show_status(s, IF Len(ops) >= FastSeekOps THEN "Fast seek"
                                     ELSE IF total_seek > 0 THEN "seek forward"
                                     ELSE "seek backward")
             cleared == [shown EXCEPT !.pending_seek_operations = <<>>,
                                      !.execute_pending_seek = FALSE]
         IN  IF cleared.cap = "None" THEN cleared
             ELSE IF cleared.fps = 0 THEN Raise(cleared)
             ELSE LET new_time == ClampedTime(cleared, total_seek)
                      moved == [CapSet(cleared, new_time) EXCEPT
                                    !.total_log = Append(@, total_seek),
                                    !.burst_applies = @ + 1]
                  IN  IF audio_available
                      THEN play_audio(moved, moved.current_index, new_time)
                      ELSE moved

\* ----------------------------------------------------------------- speed
\* ClampSpeed without the lower limit.
ClampSpeed_NoFloor(speed) == Min(SpeedMax, speed)

ClampSpeed(speed) == Max(SpeedMin, Min(SpeedMax, speed))

\* SpeedChanged without the threshold.
SpeedChanged_AnyDifference(new_speed, old_speed) == new_speed # old_speed

\* abs(self.playback_speed - old_speed) > 0.01
SpeedChanged(new_speed, old_speed) == Abs(new_speed - old_speed) > SpeedThreshold

\* change_playback_speed restarting the audio from the start of the file.
change_playback_speed_RestartsFromStart(s, delta) ==
    LET old_speed == s.playback_speed
        stored == [s EXCEPT !.playback_speed = ClampSpeed(old_speed + delta)]
    IN  IF SpeedChanged(stored.playback_speed, old_speed)
        THEN LET shown == show_status(stored, "Speed") IN
             IF audio_available /\ shown.audio_process.state # "None"
             THEN play_audio(stop_audio(shown), shown.current_index, 0)
             ELSE shown
        ELSE stored

change_playback_speed(s, delta) ==
    LET old_speed == s.playback_speed
        stored == [s EXCEPT !.playback_speed = ClampSpeed(old_speed + delta)]
    IN  IF SpeedChanged(stored.playback_speed, old_speed)
        THEN LET shown == show_status(stored, "Speed") IN
             IF audio_available /\ shown.audio_process.state # "None"
             THEN play_audio(stop_audio(shown), shown.current_index,
                             IF shown.cap # "None" THEN shown.cap_pos ELSE 0)
             ELSE shown
        ELSE stored

\* ------------------------------------------------------------ environment
\* What no step of the object changes: the directory, the user's keys, the
\* command line, the ffplay probe made by the constructor.
Config == <<video_files, keys, continuous, audio_available, kill_fails, launch_fails>>

\* The step ends normally at `next`, or its exception leaves play().
Ends(s, op, next) ==
    \E done \in {s} :
        /\ Becomes(done)
        /\ pc' = IF done.raised THEN "crashed" ELSE next
        /\ last_op' = op
        /\ UNCHANGED <<Config, now>>

\* cap.read() gives a frame: the capture is open and not at the end of the file.
FrameReadable(s) ==
    /\ s.cap = "opened"
    /\ FileFps(s.current_index) > 0
    /\ s.cap_pos < FileFrames(s.current_index) \div FileFps(s.current_index)

\* --------------------------------------------------------- playback loop
\* play(), up to the loop: the first load_video.
Play ==
    /\ pc = "new"
    /\ LET loaded == load_video(self, current_index) IN
       Ends(IF loaded.ok THEN [loaded EXCEPT !.last_frame_time = now] ELSE loaded,
            <<"play", current_index>>, IF loaded.ok THEN "top" ELSE "exited")

\* One pass of the loop from its top to waitKey: the poll of the flag, then the
\* frame step.  `due` is the outcome of the pacing check.
LoopTop(due) ==
    /\ pc = "top"
    /\ LET polled == IF execute_pending_seek
                     THEN execute_throttled_seeks(self)
                     ELSE self
       IN  IF polled.raised \/ ~polled.is_playing
           THEN Ends(polled, <<"top", "idle">>, "key")
           ELSE IF polled.fps * polled.playback_speed = 0
           THEN Ends(Raise(polled), <<"top", "pacing">>, "key")
           ELSE IF ~due
           THEN Ends(polled, <<"top", "wait">>, "key")
           ELSE IF FrameReadable(polled)
           THEN Ends(draw_status_overlay([polled EXCEPT !.cap_pos = @ + 1,
                                                        !.last_frame_time = now]),
                     <<"top", "frame">>, "key")
           ELSE IF continuous
           THEN Ends([next_video(polled) EXCEPT !.last_frame_time = now],
                     <<"top", "advance">>, "top")
           ELSE Ends(show_status(pause_audio([polled EXCEPT !.is_playing = FALSE,
                                                            !.end_of_item = TRUE]),
                                 "Video ended"),
                     <<"top", "ended">>, "top")

\* The pacing check with the speed taken as 1.0.
PacingDue_AtNormalSpeed == (now - last_frame_time) * fps >= 10

\* time_since_last_frame >= 1.0 / (self.fps * self.playback_speed), with the
\* time in tenths of a second and the speed in thousandths.
PacingDue == (now - last_frame_time) * fps * playback_speed >= 10000

\* waitKey(1) times out while playing (waitKey(0), when not playing, blocks).
KeyNone ==
    /\ pc = "key"
    /\ is_playing
    /\ Ends(self, <<"key", "none">>, "top")

\* Space.
KeySpace ==
    /\ pc = "key"
    /\ "space" \in keys
    /\ LET toggled == [self EXCEPT !.is_playing = ~@] IN
       Ends(IF toggled.is_playing
            THEN show_status(resume_audio(toggled), "Playing")
            ELSE show_status(pause_audio(toggled), "Paused"),
            <<"key", "space">>, "top")

\* m.
KeyMute ==
    /\ pc = "key"
    /\ "mute" \in keys
    /\ LET toggled == [self EXCEPT !.is_muted = ~@] IN
       Ends(show_status(set_audio_volume(toggled, toggled.is_muted),
                        IF toggled.is_muted THEN "Muted" ELSE "Unmuted"),
            <<"key", "mute">>, "top")

\* The four arrow keys and the seek each one requests.
Arrows == {"left", "right", "up", "down"}
ArrowSeconds(arrow) ==
    CASE arrow = "left" -> -seek_short
      [] arrow = "right" -> seek_short
      [] arrow = "up" -> seek_long
      [] arrow = "down" -> -seek_long

KeySeek(arrow) ==
    /\ pc = "key"
    /\ arrow \in keys
    /\ Len(pending_seek_operations) < MaxPending
    /\ Ends(throttled_seek(self, ArrowSeconds(arrow)), <<"seek", ArrowSeconds(arrow)>>, "top")

\* s.
KeyStart ==
    /\ pc = "key"
    /\ "jump" \in keys
    /\ Ends(LET moved == seek_to_position(self, 0) IN
            IF moved.raised THEN moved ELSE show_status(moved, "Start of video"),
            <<"key", "start">>, "top")

\* e.
KeyEnd ==
    /\ pc = "key"
    /\ "jump" \in keys
    /\ Ends(IF fps = 0 THEN Raise(self)
            ELSE LET moved == seek_to_position(self, Duration(self) - EndMargin) IN
                 IF moved.raised THEN moved ELSE show_status(moved, "End of video"),
            <<"key", "end">>, "top")

\* j.
KeyPrev ==
    /\ pc = "key"
    /\ "file" \in keys
    /\ Ends(prev_video(self), <<"key", "prev">>, "top")

\* k or Enter.
KeyNext ==
    /\ pc = "key"
    /\ "file" \in keys
    /\ Ends(next_video(self), <<"key", "next">>, "top")

\* ] and [.
KeySpeed(delta) ==
    /\ pc = "key"
    /\ "speed" \in keys
    /\ Ends(change_playback_speed(self, delta), <<"speed", delta>>, "top")

\* q or ESC: the loop ends and play() cleans up.
KeyQuit ==
    /\ pc = "key"
    /\ "quit" \in keys
    /\ LET saved == [self EXCEPT !.timestamps = Put(@, current_index, cap_pos),
                                 !.cap = "released",
                                 !.seek_throttle_timer = Cancel(@),
                                 !.timers_pending = AfterCancel(@, seek_throttle_timer)]
       IN  Ends(stop_audio(saved), <<"key", "quit">>, "exited")

\* Ctrl-C while play() runs: KeyboardInterrupt leaves play() from wherever the
\* loop is, main() logs "Exiting..." and returns.
KeyboardInterrupt ==
    /\ pc \in {"top", "key"}
    /\ Ends(self, <<"main", "KeyboardInterrupt">>, "interrupted")

\* The timer thread applying the pending seeks itself.
set_execute_seek_flag_AppliesSeek ==
    /\ seek_throttle_timer = "pending"
    /\ Ends([execute_throttled_seeks(self) EXCEPT !.seek_throttle_timer = "fired",
                                                  !.timers_pending = @ - 1],
            <<"timer", "fired">>, pc)

\* The timer thread: the debounce timer runs out and calls set_execute_seek_flag.
set_execute_seek_flag ==
    /\ seek_throttle_timer = "pending"
    /\ seek_throttle_timer' = "fired"
    /\ execute_pending_seek' = TRUE
    /\ timers_pending' = timers_pending - 1
    /\ last_op' = <<"timer", "fired">>
    /\ audio_log' = <<>>
    /\ set_log' = <<>>
    /\ total_log' = <<>>
    /\ status_shown' = 0
    /\ UNCHANGED <<pc, Config, now, current_index, is_playing, is_muted, timestamps,
                   cap, cap_pos, fps, frame_count, playback_speed, status_text,
                   status_start_time, audio_process, pending_seek_operations,
                   overlay, burst_applies, burst_count, burst_sum, stray_audio,
                   end_of_item, last_frame_time>>

\* ----------------------------------------------------------- direct calls
\* A method called on the object outside the key handlers, as the unit tests do.
Callable == pc \in {"new", "top", "key"}

SeekCall(seconds) ==
    /\ Callable
    /\ Ends(seek(self, seconds), <<"seek()", seconds>>, pc)

SeekToCall(position) ==
    /\ Callable
    /\ Ends(seek_to_position(self, position), <<"seek_to_position()", position>>, pc)

ThrottledCall(seconds) ==
    /\ Callable
    /\ Len(pending_seek_operations) < MaxPending
    /\ Ends(throttled_seek(self, seconds), <<"throttled_seek()", seconds>>, pc)

\* As the loop calls it: once the flag is set.
ExecuteCall ==
    /\ Callable
    /\ execute_pending_seek
    /\ Ends(execute_throttled_seeks(self), <<"execute_throttled_seeks()", 0>>, pc)

StopCall ==
    /\ Callable
    /\ Ends(stop_audio(self), <<"stop_audio()", 0>>, pc)

PlayAudioCall(start_time) ==
    /\ Callable
    /\ Ends(play_audio(self, current_index, start_time), <<"play_audio()", start_time>>, pc)

PauseCall ==
    /\ Callable
    /\ Ends(pause_audio(self), <<"pause_audio()", 0>>, pc)

ResumeCall ==
    /\ Callable
    /\ Ends(resume_audio(self), <<"resume_audio()", 0>>, pc)

\* ffplay ends on its own (-autoexit at the end of the audio, or a failure):
\* the object keeps the handle, poll() is no longer None.
AudioExits ==
    /\ audio_process.state = "running"
    /\ Ends([self EXCEPT !.audio_process.state = "exited"], <<"ffplay", "exit">>, pc)

\* The index and what load_video returned.
LoadCall(index) ==
    /\ Callable
    /\ LET loaded == load_video(self, index) IN
       Ends(loaded, <<"load_video()", index, loaded.ok>>, pc)

SpeedCall(delta) ==
    /\ Callable
    /\ Ends(change_playback_speed(self, delta), <<"change_playback_speed()", delta>>, pc)

ShowCall(message) ==
    /\ Callable
    /\ Ends(show_status(self, message), <<"show_status()", message>>, pc)

DrawCall ==
    /\ Callable
    /\ Ends(draw_status_overlay(self), <<"draw_status_overlay()", now>>, pc)

\* The wall clock advances a tenth of a second.
Tick ==
    /\ now < MaxTime
    /\ now' = now + 1
    /\ last_op' = <<"tick", now + 1>>
    /\ UNCHANGED <<pc, Config, current_index, is_playing, is_muted, timestamps,
                   cap, cap_pos, fps, frame_count, playback_speed, status_text,
                   status_start_time, audio_process, pending_seek_operations,
                   seek_throttle_timer, execute_pending_seek, audio_log, set_log,
                   status_shown, total_log, overlay, burst_applies, burst_count,
                   burst_sum, stray_audio, timers_pending, end_of_item,
                   last_frame_time>>

\* The wall clock of the pacing runs.
TickPaced ==
    /\ now < PaceTime
    /\ Tick

\* -------------------------------------------------------- specifications
NoTimestamps == [k \in {} |-> 0]

\* A file the decoder opens, with `frames` frames at 1 frame per second.
GoodFile(frames) == [frames |-> frames, fps |-> 1, opens |-> TRUE]

\* A file cv2.VideoCapture cannot open.
BrokenFile == [frames |-> 0, fps |-> 0, opens |-> FALSE]

\* A file that opens and whose CAP_PROP_FPS is 0.
ZeroFpsFile == [frames |-> LongFrames, fps |-> 0, opens |-> TRUE]

\* A directory of n files, long and short in turn.
Directory(n) ==
    [i \in 1..n |-> GoodFile(IF i % 2 = 1 THEN LongFrames ELSE ShortFrames)]

\* The object as __init__ leaves it, load_timestamps having found `saved` in
\* ~/.pp_timestamps.json.
ConstructedWith(saved) ==
    /\ pc = "new"
    /\ is_playing = TRUE
    /\ is_muted = FALSE
    /\ timestamps = saved
    /\ cap = "None"
    /\ cap_pos = 0
    /\ fps = FpsInit
    /\ frame_count = 0
    /\ playback_speed = SpeedInit
    /\ status_text = ""
    /\ status_start_time = 0
    /\ audio_process = NoProcess
    /\ pending_seek_operations = <<>>
    /\ seek_throttle_timer = "None"
    /\ execute_pending_seek = FALSE
    /\ now = 0
    /\ audio_log = <<>>
    /\ set_log = <<>>
    /\ status_shown = 0
    /\ total_log = <<>>
    /\ overlay = NoOverlay
    /\ burst_applies = 0
    /\ burst_count = 0
    /\ burst_sum = 0
    /\ stray_audio = FALSE
    /\ timers_pending = 0
    /\ end_of_item = FALSE
    /\ last_frame_time = 0
    /\ last_op = <<"init", "init">>

\* The object as __init__ leaves it when there is no ~/.pp_timestamps.json.
Constructed == ConstructedWith(NoTimestamps)

\* The user of a run keeps to two of the four arrow keys: one short and one
\* long seek, of opposite directions.
ArrowPairs == { {"right", "down"}, {"left", "up"} }

\* The seek engine in the playback loop: one file, arrow keys, the jumps,
\* play/pause and quit, against the debounce timer.
Init ==
    /\ Constructed
    /\ kill_fails = FALSE
    /\ launch_fails = FALSE
    /\ video_files = Directory(1)
    /\ current_index = 0
    /\ keys \in {pair \cup {"jump", "space", "quit"} : pair \in ArrowPairs}
    /\ continuous \in BOOLEAN
    /\ audio_available \in BOOLEAN

Next ==
    \/ Play
    \/ \E due \in BOOLEAN : LoopTop(due)
    \/ KeyNone
    \/ KeySpace
    \/ \E arrow \in Arrows : KeySeek(arrow)
    \/ KeyStart
    \/ KeyEnd
    \/ KeyQuit
    \/ set_execute_seek_flag

Spec == Init /\ [][Next]_vars

\* The file switches in the playback loop: a directory of 1..MaxFiles files, or
\* one whose second file does not open; next/prev, play/pause, mute and quit.
InitFiles ==
    /\ Constructed
    /\ kill_fails = FALSE
    /\ launch_fails = FALSE
    /\ video_files \in {Directory(n) : n \in 1..MaxFiles}
                        \cup {<<GoodFile(LongFrames), BrokenFile>>}
    /\ current_index \in 0..(num_files - 1)
    /\ keys = {"file", "space", "mute", "quit"}
    /\ continuous \in BOOLEAN
    /\ audio_available \in BOOLEAN

NextFiles ==
    \/ Play
    \/ \E due \in BOOLEAN : LoopTop(due)
    \/ KeyNone
    \/ KeySpace
    \/ KeyMute
    \/ KeyPrev
    \/ KeyNext
    \/ KeyQuit

SpecFiles == InitFiles /\ [][NextFiles]_vars

\* Every key of the playback loop with ffplay missing; the user of a run keeps
\* to one family of keys.
KeyFamilies ==
    {pair \cup {"jump", "space", "quit"} : pair \in ArrowPairs}
    \cup { {"file", "space", "mute", "quit"},
           {"speed", "mute", "space", "quit"} }

InitNoAudio ==
    /\ Constructed
    /\ kill_fails = FALSE
    /\ launch_fails = FALSE
    /\ video_files = Directory(MaxFiles)
    /\ current_index = 0
    /\ keys \in KeyFamilies
    /\ continuous \in BOOLEAN
    /\ audio_available = FALSE

NextKeys ==
    \/ Play
    \/ \E due \in BOOLEAN : LoopTop(due)
    \/ KeyNone
    \/ KeySpace
    \/ KeyMute
    \/ \E arrow \in Arrows : KeySeek(arrow)
    \/ KeyStart
    \/ KeyEnd
    \/ KeyPrev
    \/ KeyNext
    \/ \E delta \in {SpeedKeyDelta, -SpeedKeyDelta} : KeySpeed(delta)
    \/ KeyQuit
    \/ set_execute_seek_flag

SpecNoAudio == InitNoAudio /\ [][NextKeys]_vars

\* Every key of the playback loop on one file with ffplay at hand, without
\* --continuous, in runs where the kill of stop_audio works and in runs where
\* the killed process outlives it.
InitAudio ==
    /\ Constructed
    /\ kill_fails \in BOOLEAN
    /\ launch_fails = FALSE
    /\ video_files = Directory(1)
    /\ current_index = 0
    /\ keys \in KeyFamilies
    /\ continuous = FALSE
    /\ audio_available = TRUE

SpecAudio == InitAudio /\ [][NextKeys]_vars

\* Every key of the playback loop on a directory whose second file opens and
\* reports 0 frames per second.
InitFps ==
    /\ Constructed
    /\ kill_fails = FALSE
    /\ launch_fails = FALSE
    /\ video_files = <<GoodFile(LongFrames), ZeroFpsFile>>
    /\ current_index = 0
    /\ keys \in KeyFamilies
    /\ continuous \in BOOLEAN
    /\ audio_available = FALSE

SpecFps == InitFps /\ [][NextKeys]_vars

\* The ways out of play() with ffplay at hand: one file, good or reporting 0
\* frames per second, the forward arrows and quit, the debounce timer, Ctrl-C.
InitShutdown ==
    /\ Constructed
    /\ kill_fails = FALSE
    /\ launch_fails = FALSE
    /\ video_files \in {Directory(1), <<ZeroFpsFile>>}
    /\ current_index = 0
    /\ keys = {"right", "up", "quit"}
    /\ continuous = FALSE
    /\ audio_available = TRUE

NextShutdown ==
    \/ Play
    \/ \E due \in BOOLEAN : LoopTop(due)
    \/ KeyNone
    \/ \E arrow \in Arrows : KeySeek(arrow)
    \/ KeyQuit
    \/ set_execute_seek_flag
    \/ KeyboardInterrupt

SpecShutdown == InitShutdown /\ [][NextShutdown]_vars

\* The frame pacing against the wall clock: one file, new or left at its end
\* by the session before; a user of the speed keys and one of the jumps and
\* play/pause.
InitPacing ==
    /\ \E saved \in {NoTimestamps, [f \in {0} |-> LongFrames]} : ConstructedWith(saved)
    /\ kill_fails = FALSE
    /\ launch_fails = FALSE
    /\ video_files = Directory(1)
    /\ current_index = 0
    /\ keys \in { {"speed"}, {"jump", "space"} }
    /\ continuous = FALSE
    /\ audio_available = FALSE

NextPacing ==
    \/ Play
    \/ LoopTop(PacingDue)
    \/ KeyNone
    \/ KeySpace
    \/ KeyStart
    \/ KeyEnd
    \/ \E delta \in {SpeedKeyDelta, -SpeedKeyDelta} : KeySpeed(delta)
    \/ TickPaced

SpecPacing == InitPacing /\ [][NextPacing]_vars

\* The playback loop left to run: a directory of MaxFiles files, with and
\* without --continuous, a user of one arrow key and play/pause or no user at
\* all.  The loop thread and the timer thread keep running: a started play()
\* loads its file, a running timer fires, waitKey(1) returns, and since the
\* wall clock advances the pacing check of a playing loop comes out true again
\* and again.  Nothing obliges the user to press a key.
InitLive ==
    /\ Constructed
    /\ kill_fails = FALSE
    /\ launch_fails = FALSE
    /\ video_files = Directory(MaxFiles)
    /\ current_index = 0
    /\ keys \in { {"up", "space"}, {} }
    /\ continuous \in BOOLEAN
    /\ audio_available = FALSE

NextLive ==
    \/ Play
    \/ \E due \in BOOLEAN : LoopTop(due)
    \/ KeyNone
    \/ KeySpace
    \/ \E arrow \in Arrows : KeySeek(arrow)
    \/ set_execute_seek_flag

FairLive ==
    /\ WF_vars(Play)
    /\ SF_vars(LoopTop(TRUE))
    /\ WF_vars(KeyNone)
    /\ WF_vars(set_execute_seek_flag)

SpecLive == InitLive /\ [][NextLive]_vars /\ FairLive

\* Direct calls of the seek methods on a file of CallFrames seconds.
CallSeconds == {-SeekLongDefault, SeekShortDefault}
CallPositions == {-EndMargin, 0, CallFrames - EndMargin, CallFrames + SeekLongDefault}

InitSeekCalls ==
    /\ Constructed
    /\ kill_fails = FALSE
    /\ launch_fails = FALSE
    /\ video_files = <<GoodFile(CallFrames)>>
    /\ current_index = 0
    /\ keys = {}
    /\ continuous = FALSE
    /\ audio_available \in BOOLEAN

NextSeekCalls ==
    \/ Play
    \/ \E seconds \in CallSeconds : SeekCall(seconds)
    \/ \E position \in CallPositions : SeekToCall(position)
    \/ \E seconds \in CallSeconds : ThrottledCall(seconds)
    \/ set_execute_seek_flag
    \/ ExecuteCall

SpecSeekCalls == InitSeekCalls /\ [][NextSeekCalls]_vars

\* Direct calls of load_video with every index from one below the directory to
\* one above it, and of seek_to_position in between.
LoadIndexes == -1 .. MaxFiles

InitLoadCalls ==
    /\ Constructed
    /\ kill_fails = FALSE
    /\ launch_fails = FALSE
    /\ video_files \in {Directory(MaxFiles), <<GoodFile(LongFrames), BrokenFile>>}
    /\ current_index = 0
    /\ keys = {}
    /\ continuous = FALSE
    /\ audio_available \in BOOLEAN

NextLoadCalls ==
    \/ \E index \in LoadIndexes : LoadCall(index)
    \/ \E position \in CallPositions : SeekToCall(position)

SpecLoadCalls == InitLoadCalls /\ [][NextLoadCalls]_vars

\* Direct calls of the audio methods: runs where the kill works or fails and
\* where the launch works or fails, the process running, suspended or ended
\* on its own when stop_audio is called.
InitAudioCalls ==
    /\ ConstructedWith(NoTimestamps)
    /\ kill_fails \in BOOLEAN
    /\ launch_fails \in BOOLEAN
    /\ video_files = Directory(1)
    /\ current_index = 0
    /\ keys = {}
    /\ continuous = FALSE
    /\ audio_available = TRUE

NextAudioCalls ==
    \/ Play
    \/ StopCall
    \/ \E start_time \in 0..ShortFrames : PlayAudioCall(start_time)
    \/ PauseCall
    \/ ResumeCall
    \/ AudioExits

SpecAudioCalls == InitAudioCalls /\ [][NextAudioCalls]_vars

\* Direct calls of change_playback_speed with the key step, a change under the
\* threshold and a change larger than the whole range, while the file plays.
SpeedDeltas == {SpeedKeyDelta, -SpeedKeyDelta, SpeedThreshold \div 2,
                -(SpeedThreshold \div 2), SpeedMax, -SpeedMax}

InitSpeed ==
    /\ Constructed
    /\ kill_fails = FALSE
    /\ launch_fails = FALSE
    /\ video_files = Directory(1)
    /\ current_index = 0
    /\ keys = {}
    /\ continuous = FALSE
    /\ audio_available \in BOOLEAN

NextSpeed ==
    \/ Play
    \/ \E delta \in SpeedDeltas : SpeedCall(delta)

SpecSpeed == InitSpeed /\ [][NextSpeed]_vars

\* The status overlay against the wall clock.
InitStatus ==
    /\ Constructed
    /\ kill_fails = FALSE
    /\ launch_fails = FALSE
    /\ video_files = Directory(1)
    /\ current_index = 0
    /\ keys = {}
    /\ continuous = FALSE
    /\ audio_available = FALSE

NextStatus ==
    \/ \E message \in {"first", "second"} : ShowCall(message)
    \/ DrawCall
    \/ Tick

SpecStatus == InitStatus /\ [][NextStatus]_vars

\* ---------------------------------------------------------------- claims
\* x limited to [lo, hi].
Clamp(x, lo, hi) == IF x < lo THEN lo ELSE IF x > hi THEN hi ELSE x

\* The length of the loaded file in seconds.
DurationNow == frame_count \div fps

\* C1: when a consolidated seek is applied, it is the one seek of the current
\* debounce window: its amount is the sum of the window's N requests (N < 3)
\* or 5 times that sum (N >= 3), and no request stays pending.
C1_BurstAppliedAsItsTotal ==
    total_log # <<>> =>
        /\ total_log = << IF burst_count >= FastSeekOps
                          THEN FastSeekMultiplier * burst_sum
                          ELSE burst_sum >>
        /\ pending_seek_operations = <<>>

\* C2: the requests of one burst (each issued while the timer of the one before
\* was pending) are applied as one consolidated seek, never as two or more.
C2_OneSeekPerBurst == burst_applies <= 1

\* C3: the position seek, seek_to_position and execute_throttled_seeks write
\* to the decoder is clamp(p + d, 0, duration) for the position p before the
\* call and the amount d (for seek_to_position, the clamped target), and no
\* call raises.
C3_SeekWritesClampedPosition ==
    [][ /\ pc' # "crashed"
        /\ (last_op'[1] = "seek()" /\ cap # "None") =>
              /\ set_log' = << Clamp(cap_pos + last_op'[2], 0, DurationNow) >>
              /\ cap_pos' = Clamp(cap_pos + last_op'[2], 0, DurationNow)
        /\ (last_op'[1] = "seek_to_position()" /\ cap # "None") =>
              /\ set_log' = << Clamp(last_op'[2], 0, DurationNow) >>
              /\ cap_pos' = Clamp(last_op'[2], 0, DurationNow)
        /\ (last_op'[1] = "execute_throttled_seeks()" /\ total_log' # <<>>) =>
              /\ set_log' = << Clamp(cap_pos + total_log'[1], 0, DurationNow) >>
              /\ cap_pos' = Clamp(cap_pos + total_log'[1], 0, DurationNow)
      ]_vars

\* Three requests of +10 s applied as +150 s on the 100 s file: the position
\* written is the end of the file.
C3_ThreeForwardSeeksStopAtEnd ==
    /\ last_op[1] = "execute_throttled_seeks()"
    /\ total_log = << FastSeekMultiplier * 3 * SeekShortDefault >>
    /\ set_log = << CallFrames >>
    /\ cap_pos = CallFrames

C6_AbsentFromDuration ==
    (last_op[1] = "draw_status_overlay()"
        /\ last_op[2] - status_start_time >= status_duration) =>
            (~overlay.present /\ status_text = "")

\* C6: a read later than T + status_duration finds no message and clears the
\* stored text; a read up to and at T + status_duration draws it and keeps it;
\* only a read clears the text, and show_status starts the window anew at its
\* own time.
C6_AbsentAfterDuration ==
    [][ /\ last_op'[1] = "draw_status_overlay()" =>
              IF status_text = "" THEN ~overlay'.present /\ status_text' = ""
              ELSE IF now - status_start_time > status_duration
              THEN ~overlay'.present /\ status_text' = ""
              ELSE overlay'.present /\ status_text' = status_text
        /\ (status_text # "" /\ status_text' = "") =>
              last_op'[1] = "draw_status_overlay()"
        /\ last_op'[1] = "show_status()" =>
              status_text' = last_op'[2] /\ status_start_time' = now
      ]_vars

\* A read at T + status_duration exactly: the message is drawn and kept.
C6_DrawnAtDuration ==
    /\ last_op[1] = "draw_status_overlay()"
    /\ last_op[2] - status_start_time = status_duration
    /\ overlay.present
    /\ status_text # ""

\* C7: a drawn message has an opacity within [0, 1]: 1.0 before
\* T + status_duration - 0.5, and from there the line that falls to 0 at
\* T + status_duration (so strictly decreasing).
C7_OpacityProfile ==
    overlay.present =>
        /\ 0 <= overlay.alpha /\ overlay.alpha <= AlphaFull
        /\ overlay.elapsed < status_duration - FadeWindow => overlay.alpha = AlphaFull
        /\ overlay.elapsed >= status_duration - FadeWindow =>
              overlay.alpha * FadeWindow = AlphaFull * (status_duration - overlay.elapsed)

\* A read in the middle of the fade.
C7_MidFade ==
    /\ overlay.present
    /\ overlay.elapsed > status_duration - FadeWindow
    /\ overlay.elapsed < status_duration
    /\ 0 < overlay.alpha /\ overlay.alpha < AlphaFull

\* C8: next_video moves to index (i + 1) mod n and prev_video to (i - 1) mod n
\* of the n files, and the index is within [0, n - 1] in every reachable state.
C8_IndexWraps ==
    /\ [](0 <= current_index /\ current_index <= num_files - 1)
    /\ [][ /\ last_op' \in {<<"key", "next">>, <<"top", "advance">>} =>
                current_index' = IF current_index = num_files - 1 THEN 0
                                 ELSE current_index + 1
           /\ last_op' = <<"key", "prev">> =>
                current_index' = IF current_index = 0 THEN num_files - 1
                                 ELSE current_index - 1
         ]_vars

\* prev_video on the first of several files went to the last.
C8_PrevWrapped ==
    /\ last_op = <<"key", "prev">>
    /\ num_files >= 2
    /\ current_index = num_files - 1

\* C9: a file switch stores the decoder's position under the file it leaves;
\* a switch that opens its file resumes at the position stored for that file
\* when it is above 0, and at 0 otherwise; and no step changes what is stored
\* for a file other than the current one.
C9_PositionKeptPerFile ==
    [][ /\ last_op' \in {<<"key", "next">>, <<"key", "prev">>, <<"top", "advance">>} =>
              /\ current_index \in DOMAIN timestamps'
              /\ timestamps'[current_index] = cap_pos
              /\ cap' = "opened" =>
                    cap_pos' = IF current_index' \in DOMAIN timestamps'
                                  /\ timestamps'[current_index'] > 0
                               THEN timestamps'[current_index']
                               ELSE 0
        /\ \A f \in DOMAIN timestamps :
              f # current_index => f \in DOMAIN timestamps' /\ timestamps'[f] = timestamps[f]
      ]_vars

\* Back on a file of several that was left at a position above 0.
C9_ResumedWhereLeft ==
    /\ last_op \in {<<"key", "next">>, <<"key", "prev">>}
    /\ num_files >= 2
    /\ DOMAIN timestamps = 0..(num_files - 1)
    /\ cap_pos > 0
    /\ set_log = << cap_pos >>
    /\ timestamps[current_index] = cap_pos

\* C10: with ffplay missing at startup the flag never changes, no step
\* launches, kills or signals an audio process, there is no process handle,
\* and no step raises.
C10_NoAudioNoProcess ==
    /\ [](~audio_available => /\ audio_process = NoProcess
                              /\ audio_log = <<>>
                              /\ pc # "crashed")
    /\ [][audio_available' = audio_available]_vars

\* A consolidated seek applied by the loop, without audio.
C10_SeekAppliedWithoutAudio ==
    /\ ~audio_available
    /\ total_log # <<>>
    /\ pc = "top"

\* C11 as claimed: no process launched by the object is alive beside the one
\* the handle holds, whether the kill of stop_audio works or fails.
C11_OneProcessAlive == ~(stray_audio /\ Alive(audio_process))

\* C11: the object holds one handle, and a process it launched is alive
\* without a handle only in a run where a kill failed or timed out: every
\* launch has sent the kill to the process alive before it.
C11_StrayOnlyAfterFailedKill == stray_audio => kill_fails

\* An audio restart in a run where the kill works: the old process killed, the
\* new one alive, none beside it.
C11_RestartedAfterKill ==
    /\ ~kill_fails
    /\ audio_log = <<"kill", "launch">>
    /\ Alive(audio_process)
    /\ ~stray_audio

\* C12: the timer callback sets the flag and changes neither the decoder's
\* position nor the pending requests nor the audio process; the decoder is
\* written by no step of the timer thread, and the flag is cleared only by a
\* pass of the loop.
C12_TimerOnlySetsFlag ==
    [][ /\ last_op' = <<"timer", "fired">> =>
              /\ execute_pending_seek'
              /\ cap_pos' = cap_pos
              /\ set_log' = <<>>
              /\ pending_seek_operations' = pending_seek_operations
              /\ audio_process' = audio_process
              /\ audio_log' = <<>>
        /\ (cap_pos' # cap_pos \/ set_log' # <<>>) => last_op' # <<"timer", "fired">>
        /\ (execute_pending_seek /\ ~execute_pending_seek') => last_op'[1] = "top"
      ]_vars

\* The timer has fired on pending requests: the flag is set, nothing applied.
C12_FlagSetRequestsPending ==
    /\ last_op = <<"timer", "fired">>
    /\ execute_pending_seek
    /\ pending_seek_operations # <<>>

\* C13: at most one debounce timer is pending (started, not fired, not
\* cancelled), and it is the one the object holds.
C13_OneTimerPending ==
    /\ timers_pending <= 1
    /\ timers_pending = 1 <=> seek_throttle_timer = "pending"

\* A request made while the timer of the request before it was pending.
C13_TimerReplaced ==
    /\ burst_count >= 2
    /\ seek_throttle_timer = "pending"
    /\ timers_pending = 1

\* The index after current_index, and the one before it, around the directory.
IndexAfter == IF current_index = num_files - 1 THEN 0 ELSE current_index + 1
IndexBefore == IF current_index = 0 THEN num_files - 1 ELSE current_index - 1

\* C14: the play/pause key toggles is_playing; on pausing, a live audio
\* process is suspended and its handle kept; on resuming, the same process is
\* continued; nothing is killed or launched.
C14_ToggleSuspendsAndContinues ==
    [][ last_op' = <<"key", "space">> =>
            /\ is_playing' = ~is_playing
            /\ Alive(audio_process) =>
                  /\ audio_process' = [audio_process EXCEPT
                                          !.state = IF is_playing THEN "suspended"
                                                    ELSE "running"]
                  /\ audio_log' = << IF is_playing THEN "SIGSTOP" ELSE "SIGCONT" >>
            /\ ~Alive(audio_process) =>
                  /\ audio_process' = audio_process
                  /\ audio_log' = <<>>
      ]_vars

\* The play/pause key has continued a suspended process.
C14_ProcessContinued ==
    /\ last_op = <<"key", "space">>
    /\ is_playing
    /\ audio_process.state = "running"
    /\ audio_log = <<"SIGCONT">>

\* C15: the arrow keys, the two jumps, the speed keys and the mute key are
\* handled whatever is_playing is and leave it as it was, and so does the
\* application of the pending seeks (a frame read that fails in the same pass
\* of the loop aside).
C15_CommandsKeepPlayState ==
    [][ /\ (\/ last_op'[1] \in {"seek", "speed"}
            \/ last_op' \in {<<"key", "start">>, <<"key", "end">>, <<"key", "mute">>}) =>
               /\ is_playing' = is_playing
               /\ pc' = "top"
        /\ (total_log' # <<>> /\ last_op' # <<"top", "ended">>) =>
               is_playing' = is_playing
      ]_vars

\* A jump to the start handled at the end of the file.
C15_JumpAtEndOfItem ==
    /\ last_op = <<"key", "start">>
    /\ end_of_item
    /\ ~is_playing
    /\ set_log = <<0>>

\* C16: once the file has run into its end (without --continuous), no frame
\* of it is played again before a next or prev command or the auto-advance
\* loads a file.
C16_NoFrameAfterEndOfItem == end_of_item => last_op # <<"top", "frame">>

\* C17: a frame read that fails while playing loads the next file (wrapping)
\* and keeps playing with --continuous; without it the player stops playing,
\* suspends a live audio process and shows the status message; and a player
\* that is not playing reads no frame and stays so in every pass of the loop.
C17_EndOfFile ==
    [][ /\ last_op' = <<"top", "advance">> =>
              /\ continuous /\ is_playing /\ is_playing'
              /\ current_index' = IndexAfter
        /\ last_op' = <<"top", "ended">> =>
              /\ ~continuous /\ is_playing /\ ~is_playing'
              /\ status_text' = "Video ended"
              /\ Alive(audio_process') => audio_process'.state = "suspended"
              /\ "kill" \notin {audio_log'[i] : i \in DOMAIN audio_log'}
        /\ (last_op'[1] = "top" /\ ~is_playing /\ total_log' = <<>>) =>
              /\ last_op' = <<"top", "idle">>
              /\ ~is_playing'
              /\ cap_pos' = cap_pos
        /\ (last_op'[1] = "top" /\ is_playing' /\ ~continuous) =>
              last_op'[2] \in {"wait", "frame"}
      ]_vars

\* The file ended without --continuous: not playing, the audio suspended.
C17_EndedAudioSuspended ==
    /\ last_op = <<"top", "ended">>
    /\ ~is_playing
    /\ audio_process.state = "suspended"
    /\ status_text = "Video ended"

\* C18: with a file loaded whose fps is 0, neither the pacing check of the
\* loop nor a seek or a jump raises.
C18_NoDivisionByZero == (cap = "opened" /\ fps = 0) => pc # "crashed"

\* C19: a file switch whose file does not open leaves the index, the decoder
\* handle, fps and the frame count as they were before the switch.
C19_FailedSwitchKeepsState ==
    [][ (\/ last_op' \in {<<"key", "next">>, <<"top", "advance">>} /\ ~FileOpens(IndexAfter)
         \/ last_op' = <<"key", "prev">> /\ ~FileOpens(IndexBefore)) =>
            /\ current_index' = current_index
            /\ cap' = cap
            /\ fps' = fps
            /\ frame_count' = frame_count
      ]_vars

\* C20: play() is left only by the quit key: no file that fails to open, the
\* initial one included, and no exception ends the loop.
C20_OnlyQuitEndsPlay ==
    /\ pc # "crashed"
    /\ pc = "exited" => last_op = <<"key", "quit">>

\* C21: however play() is left (the quit key, Ctrl-C, an exception raised in
\* the loop), the debounce timer has been cancelled and the audio process
\* killed: no timer is pending and no audio process launched by the object is
\* alive once the program is out of play().
C21_CleanupOnEveryExit ==
    pc \in {"exited", "crashed", "interrupted"} =>
        /\ ~Alive(audio_process)
        /\ ~stray_audio
        /\ seek_throttle_timer # "pending"

\* C22: a live audio process was launched with the current file, the current
\* speed and the current mute state: whatever changes one of the three while
\* a process is active has killed it and launched a new one.
C22_AudioMatchesState ==
    Alive(audio_process) =>
        /\ audio_process.file = current_index
        /\ audio_process.speed = playback_speed
        /\ audio_process.muted = is_muted

\* C23: a speed key that changes the stored speed by more than the threshold
\* shows one status message and, when an audio process is alive, kills it once
\* and launches one process at the decoder's position with the new speed;
\* without a live process it touches none.  So three presses of ] from 1.0
\* give 1.3, three messages and three restarts.
C23_OneStatusOneRestart ==
    [][ (last_op'[1] = "speed" /\ Abs(playback_speed' - playback_speed) > SpeedThreshold) =>
            /\ playback_speed' = playback_speed + last_op'[2]
            /\ status_shown' = 1
            /\ status_text' = "Speed"
            /\ IF Alive(audio_process)
               THEN /\ audio_log' = <<"kill", "launch">>
                    /\ audio_process' = [file |-> current_index, start |-> cap_pos,
                                         speed |-> playback_speed', muted |-> is_muted,
                                         state |-> "running"]
               ELSE /\ audio_log' = <<>>
                    /\ audio_process' = audio_process
      ]_vars

\* The press of ] that takes the speed to 1.3, in the middle of the file: one
\* message, the audio restarted there at 1.3.
C23_ThirdSpeedUp ==
    /\ last_op = <<"speed", SpeedKeyDelta>>
    /\ playback_speed = SpeedInit + 3 * SpeedKeyDelta
    /\ status_shown = 1
    /\ audio_log = <<"kill", "launch">>
    /\ audio_process.speed = SpeedInit + 3 * SpeedKeyDelta
    /\ cap_pos > 0
    /\ audio_process.start = cap_pos

C25_FrameOnlyWhenDue ==
    [][ /\ last_op' = <<"top", "frame">> =>
              /\ is_playing
              /\ (now - last_frame_time) * fps * playback_speed >= 10000
              /\ cap_pos' = cap_pos + 1
              /\ last_frame_time' = now
        /\ (last_op'[1] = "top" /\ cap_pos' = cap_pos + 1) => last_op' = <<"top", "frame">>
        /\ (~is_playing /\ cap_pos' # cap_pos) => last_op'[1] = "key"
      ]_vars

\* A frame read at 3.0x no later than a second after the one before it.
C25_FrameAtTripleSpeed ==
    /\ last_op = <<"top", "frame">>
    /\ playback_speed = SpeedMax
    /\ cap_pos >= 2
    /\ last_frame_time = now
    /\ now < 10

C27_BadIndexChangesNothing ==
    [][ last_op'[1] = "load_video()" =>
            IF 0 <= last_op'[2] /\ last_op'[2] < num_files
            THEN last_op'[3] = FileOpens(last_op'[2])
            ELSE /\ last_op'[3] = FALSE
                 /\ UNCHANGED <<current_index, cap, cap_pos, fps, frame_count, timestamps,
                                audio_process, status_text, status_start_time,
                                is_playing, is_muted, playback_speed, stray_audio,
                                pending_seek_operations, seek_throttle_timer,
                                execute_pending_seek>>
                 /\ audio_log' = <<>>
                 /\ set_log' = <<>>
                 /\ status_shown' = 0
      ]_vars

\* load_video called with the number of files while a file plays with audio,
\* away from its start.
C27_BadIndexWhilePlaying ==
    /\ last_op = <<"load_video()", num_files, FALSE>>
    /\ cap = "opened"
    /\ cap_pos > 0
    /\ Alive(audio_process)
    /\ status_text # ""

\* C28: stop_audio does not raise and leaves the object without a handle,
\* whether the process ran, was suspended, had ended on its own, or outlived
\* the kill; it sends the kill exactly to a process that is alive.  A play_audio
\* whose launch fails does not raise and leaves no handle; one whose launch
\* works leaves a live process.
C28_StopAlwaysDropsHandle ==
    /\ [](pc # "crashed")
    /\ [][ /\ last_op'[1] = "stop_audio()" =>
                 /\ audio_process' = NoProcess
                 /\ audio_log' = IF Alive(audio_process) THEN <<"kill">> ELSE <<>>
           /\ last_op'[1] = "play_audio()" =>
                 IF launch_fails
                 THEN audio_process' = NoProcess
                 ELSE audio_process'.state = "running"
         ]_vars

\* stop_audio called on a process that outlived the kill: no handle is kept.
C28_UnkillableHandleDropped ==
    /\ last_op[1] = "stop_audio()"
    /\ kill_fails
    /\ audio_log = <<"kill">>
    /\ stray_audio
    /\ audio_process = NoProcess

\* C29: a consolidated seek is applied only once the debounce delay has run
\* out after the most recent request: when the loop applies the pending
\* requests, the timer started by the last of them has fired, so no request is
\* applied sooner than the delay after it was made.
C29_AppliedAfterQuietPeriod == total_log # <<>> => seek_throttle_timer # "pending"

\* C30: show_status stores its message and the time of the call whatever the
\* stored text and start time were, and nothing else moves the start time: a
\* read up to status_duration after the latest show_status draws its message,
\* however long a message replaced by it had been on.
C30_ShowRestartsWindow ==
    [][ /\ last_op'[1] = "show_status()" =>
              /\ status_text' = last_op'[2]
              /\ status_start_time' = now
              /\ status_shown' = 1
        /\ last_op'[1] # "show_status()" => status_start_time' = status_start_time
        /\ (last_op'[1] = "draw_status_overlay()" /\ status_text # ""
                /\ now - status_start_time <= status_duration) =>
              /\ overlay'.present
              /\ overlay'.elapsed = now - status_start_time
              /\ status_text' = status_text
      ]_vars

\* A message shown after another one had been drawn for a while: its window
\* starts at the call.
C30_ReplacedWhileDrawn ==
    /\ last_op = <<"show_status()", "second">>
    /\ overlay.present
    /\ overlay.elapsed > FadeWindow
    /\ status_text = "second"
    /\ status_start_time = now

\* The places of an argument in a command line.
Places(cmd, arg) == {i \in DOMAIN cmd : cmd[i] = arg}

\* The command line of the process the object holds.
LaunchedCommand ==
    ffplay_command(audio_process.file, audio_process.start, audio_process.muted,
                   audio_process.speed)

\* C31: the command of a launched audio process has the path of the file as
\* its last argument; -ss with the start position once if the position is
\* above 0 and not at all otherwise; and filters in one argument after one
\* -af: volume=0 if and only if muted, atempo=speed if and only if the speed
\* is not 1.0, the two joined in that order when both, and neither -af nor a
\* filter argument when neither.
C31_CommandCarriesFilters ==
    audio_process.state # "None" =>
        LET p == audio_process
            cmd == LaunchedCommand
            ss == Places(cmd, Word("-ss"))
            af == Places(cmd, Word("-af"))
            joined == {i \in DOMAIN cmd : cmd[i].kind = "filters"}
        IN  /\ cmd[Len(cmd)] = PathOf(p.file)
            /\ Cardinality(ss) = IF p.start > 0 THEN 1 ELSE 0
            /\ \A i \in ss : cmd[i + 1] = Number(p.start)
            /\ Cardinality(af) = IF p.muted \/ p.speed # SpeedNormal THEN 1 ELSE 0
            /\ joined = {i + 1 : i \in af}
            /\ \A i \in joined :
                  LET fs == cmd[i].filters
                      names == {fs[k] : k \in DOMAIN fs} IN
                  /\ Filter("volume", 0) \in names <=> p.muted
                  /\ Filter("atempo", p.speed) \in names <=> p.speed # SpeedNormal
                  /\ Len(fs) = Cardinality(names)
                  /\ Len(fs) = (IF p.muted THEN 1 ELSE 0)
                               + (IF p.speed # SpeedNormal THEN 1 ELSE 0)

\* A process launched muted, at 1.2x, from the middle of the file.
C31_MutedFasterFromMiddle ==
    /\ Alive(audio_process)
    /\ audio_process.muted
    /\ audio_process.speed = SpeedNormal + 2 * SpeedKeyDelta
    /\ audio_process.start > 0
    /\ Len(LaunchedCommand) = 10

\* C32: while the player is not playing (paused, or stopped at the end of the
\* file) no audio process runs unsuspended, whatever command was handled in
\* that state.
C32_NoAudioWhileNotPlaying ==
    (pc \in {"top", "key"} /\ ~is_playing) => audio_process.state # "running"

\* C33: once the debounce timer has fired on pending seek requests, they are
\* applied to the decoder without another key being pressed, whether the
\* player is playing or not.
C33_FiredRequestsGetApplied ==
    [](  (execute_pending_seek /\ pending_seek_operations # <<>>)
      => <>(pending_seek_operations = <<>>))

\* C34: with no seek request waiting and no debounce timer running, the flag
\* that tells the loop to apply requests is down.
C34_FlagDownWhenNothingWaits ==
    (pending_seek_operations = <<>> /\ seek_throttle_timer # "pending")
        => ~execute_pending_seek

\* C35: seek requests made while one file is current never reach another
\* file: when the player switches to another file (auto-advance, next or
\* previous), no request made on the old file is left waiting to be applied.
C35_RequestsStayWithTheirFile ==
    [][ (/\ last_op' \in {<<"top", "advance">>, <<"key", "next">>, <<"key", "prev">>}
         /\ current_index' # current_index)
        => pending_seek_operations' = <<>> ]_vars

\* C36: in continuous mode, left alone, the player shows a frame again after
\* every auto-advance: it does not go from file to file for ever without
\* showing anything.
C36_AdvanceLeadsToFrame ==
    [](  (continuous /\ keys = {} /\ last_op = <<"top", "advance">>)
      => <>(last_op = <<"top", "frame">>))

\* C37: without --continuous, once the file has ended, a next or previous
\* command that opens a file puts the player back into playing.
C37_NextAfterEndPlays ==
    [][ (/\ ~continuous
         /\ end_of_item
         /\ cap = "opened"
         /\ ~is_playing
         /\ last_op' \in {<<"key", "next">>, <<"key", "prev">>}
         /\ cap' = "opened")
        => is_playing' ]_vars

====
